---- MODULE Spec2Model ----
(***************************************************************************)
(* Model of the 5x5 WS2812B matrix driver (src/matriz.c).                  *)
(*                                                                         *)
(* State: the static pixel buffer matriz_buffer, the position of the one   *)
(* caller (idle, or inside matriz_renderizar's loop), the words handed to  *)
(* pio_sm_put_blocking, and the PIO TX FIFO that primitive blocks on.      *)
(*                                                                         *)
(* A uint32_t is a tuple of four bytes, most significant first: TLC's      *)
(* integers stop at 2^31 - 1, below the words render shifts out.  Shifts   *)
(* drop the bytes pushed past the top, which is the arithmetic modulo 2^32 *)
(* of the C code.                                                          *)
(***************************************************************************)
EXTENDS Integers, Sequences, FiniteSets

VARIABLES
    matriz_buffer,  \* static uint32_t matriz_buffer[LED_COUNT]
    call,           \* the API call in progress or last returned, with its arguments
    pc,             \* "idle", or "render" while matriz_renderizar runs its loop
    i,              \* matriz_renderizar's loop variable
    sent,           \* words handed to pio_sm_put_blocking by the current/last API call
    fault,          \* TRUE once a store outside matriz_buffer has happened
    txLevel,        \* words waiting in the PIO TX FIFO
    txHalted,       \* TRUE while the transmitter's state machine is not running
    staged,         \* per logical cell, the colour of the last set_pixel since the last clear
    prevFrame,      \* the words of the previous render, kept while nothing was staged since
    nCalls,         \* staging calls made so far (bounded exploration of the full grid)
    args,           \* xy_to_index study: two coordinate pairs
    res             \* xy_to_index study: their two indices, <<>> before the call

vars == <<matriz_buffer, call, pc, i, sent, fault, txLevel, txHalted,
          staged, prevFrame, nCalls, args, res>>

driverVars == <<matriz_buffer, call, pc, i, sent, fault, txLevel, txHalted,
                staged, prevFrame, nCalls>>

-----------------------------------------------------------------------------
(* Program constants *)

LED_COUNT == 25

Slots == 0 .. (LED_COUNT - 1)

\* The coordinates the API documents: x and y "devem estar entre 0 e 4".
Grid == 0 .. 4

-----------------------------------------------------------------------------
(* Bounds of the exploration *)

\* Staging calls explored over the full grid.
MaxCalls == 2

\* Depth of the transmitter's FIFO (the hardware's is deeper; the driver never reads it).
FifoDepth == 2

-----------------------------------------------------------------------------
(* 32-bit words as four bytes, most significant first *)

Byte == 0 .. 255

ZeroWord == <<0, 0, 0, 0>>

\* (uint32_t)(v) of a uint8_t v
Widen(v) == <<0, 0, 0, v % 256>>

\* w << bits on a uint32_t, bits a multiple of 8: bytes shifted past the top are lost.
Shl(w, bits) ==
    LET k == bits \div 8
    IN  [j \in 1 .. 4 |-> IF j + k <= 4 THEN w[j + k] ELSE 0]

RECURSIVE OrBits(_, _, _)
\* the bitwise or of the low n bits of a and b
OrBits(a, b, n) ==
    IF n = 0 THEN 0
    ELSE (IF (a % 2 = 1) \/ (b % 2 = 1) THEN 1 ELSE 0)
         + 2 * OrBits(a \div 2, b \div 2, n - 1)

\* a | b on uint32_t
BitOr(a, b) == [j \in 1 .. 4 |-> OrBits(a[j], b[j], 8)]

\* Variant: red and green exchanged (RGB instead of the wire's GRB).
urgb_u32_rgb(r, g, b) == BitOr(BitOr(Shl(Widen(r), 16), Shl(Widen(g), 8)), Widen(b))

\* Variant: green shifted by 24, into the container's unused top byte.
urgb_u32_hi(r, g, b) == BitOr(BitOr(Shl(Widen(g), 24), Shl(Widen(r), 8)), Widen(b))

\* ((uint32_t)(g) << 16) | ((uint32_t)(r) << 8) | (uint32_t)(b)
urgb_u32(r, g, b) == BitOr(BitOr(Shl(Widen(g), 16), Shl(Widen(r), 8)), Widen(b))

\* Variant: the word is handed over unshifted.
put_pixel_raw_noshift(pixel_grb) == pixel_grb

\* The argument put_pixel_raw passes to pio_sm_put_blocking: pixel_grb << 8u.
put_pixel_raw(pixel_grb) == Shl(pixel_grb, 8)

-----------------------------------------------------------------------------
(* Coordinate mapper *)

\* Variant: odd rows mirrored about 5 instead of 4.
xy_to_index_off(x, y) ==
    LET inverted_y == 4 - y
    IN  IF inverted_y % 2 = 0
        THEN inverted_y * 5 + x
        ELSE inverted_y * 5 + (5 - x)

\* Variant: every row wired left to right.
xy_to_index_noflip(x, y) == (4 - y) * 5 + x

\* uint arithmetic: for x, y in 0..4 nothing wraps; for any other input the integer
\* computed here is congruent modulo 2^32 to the C value (same parity, and negative
\* exactly when the C value is far above LED_COUNT).
xy_to_index(x, y) ==
    LET inverted_y == 4 - y
    IN  IF inverted_y % 2 = 0
        THEN inverted_y * 5 + x
        ELSE inverted_y * 5 + (4 - x)

-----------------------------------------------------------------------------
(* Inputs offered by the caller *)

\* Colours as <<r, g, b>>; the first is the driver documentation's example.
Colours == {<<255, 0, 128>>, <<16, 255, 1>>}

\* Staging alone is also tried with black.
StageColours == Colours \cup {<<0, 0, 0>>}

\* x and y of matriz_set_pixel over the whole grid and beyond it: the first value
\* out of range and a uint8_t's largest.
Coords == Grid \cup {5, 255}

\* The driver is run end to end on the first two wired rows' end cells (one row wired
\* left-to-right, one right-to-left) and on one value out of range.
CornerX == {0, 4, 5}
CornerY == {3, 4, 5}

Cells == Grid \X Grid

\* No colour staged for a cell.
Unset == <<>>

\* A call record: the operation, the one that preceded it, and set_pixel's arguments.
NoCall == [op |-> "none", prev |-> "none", x |-> 0, y |-> 0, r |-> 0, g |-> 0, b |-> 0]

-----------------------------------------------------------------------------
(* Initial state: static storage at program start.  No call has been made yet, so  *)
(* state machine 0 of pio0 has not been started and its FIFO is empty.              *)

InitDriver ==
    /\ matriz_buffer = [s \in Slots |-> ZeroWord]
    /\ call = NoCall
    /\ pc = "idle"
    /\ i = 0
    /\ sent = <<>>
    /\ fault = FALSE
    /\ txLevel = 0
    /\ txHalted = TRUE
    /\ staged = [c \in Cells |-> Unset]
    /\ prevFrame = <<>>
    /\ nCalls = 0

Init ==
    /\ InitDriver
    /\ args = <<0, 0, 0, 0>>
    /\ res = <<>>

-----------------------------------------------------------------------------
(* Public API *)

\* pio_add_program(pio0, &ws2812_program); ws2812_program_init(pio0, 0, offset, ...).
\* The pixel buffer is not touched and nothing is handed to the FIFO.  The SDK's
\* program init ends in pio_sm_init and pio_sm_set_enabled: the state machine's
\* FIFOs are cleared and it is (re)started.  The function may be called from any
\* idle state, also again after a first call.
matriz_init ==
    /\ pc = "idle"
    /\ call' = [NoCall EXCEPT !.op = "init", !.prev = call.op]
    /\ sent' = <<>>
    /\ txLevel' = 0
    /\ txHalted' = FALSE
    /\ prevFrame' = <<>>
    /\ UNCHANGED <<matriz_buffer, pc, i, fault, staged, nCalls, args, res>>

\* Variant: memset over LED_COUNT bytes, which ends inside slot 6.
memset_short ==
    [s \in Slots |-> IF 4 * (s + 1) <= LED_COUNT THEN ZeroWord
                     ELSE IF 4 * s < LED_COUNT
                          THEN <<matriz_buffer[s][1], matriz_buffer[s][2],
                                 matriz_buffer[s][3], 0>>
                          ELSE matriz_buffer[s]]

\* memset(matriz_buffer, 0, sizeof(matriz_buffer)): all LED_COUNT words
memset_zero == [s \in Slots |-> ZeroWord]

\* Variant: clearing also pushes the cleared frame out.
matriz_limpar_auto ==
    /\ pc = "idle"
    /\ matriz_buffer' = memset_zero
    /\ call' = [NoCall EXCEPT !.op = "limpar", !.prev = call.op]
    /\ sent' = [k \in 1 .. LED_COUNT |-> ZeroWord]
    /\ staged' = [c \in Cells |-> Unset]
    /\ prevFrame' = <<>>
    /\ UNCHANGED <<pc, i, fault, txLevel, txHalted, args, res>>

matriz_limpar ==
    /\ pc = "idle"
    /\ matriz_buffer' = memset_zero
    /\ call' = [NoCall EXCEPT !.op = "limpar", !.prev = call.op]
    /\ sent' = <<>>
    /\ staged' = [c \in Cells |-> Unset]
    /\ prevFrame' = <<>>
    /\ UNCHANGED <<pc, i, fault, txLevel, txHalted, args, res>>

\* matriz_buffer[idx] = word.  A store outside the array is undefined behaviour: it
\* may hit nothing the driver reads, or land on any slot.
Store(idx, word) ==
    IF idx \in Slots
    THEN /\ matriz_buffer' = [matriz_buffer EXCEPT ![idx] = word]
         /\ UNCHANGED fault
    ELSE /\ fault' = TRUE
         /\ matriz_buffer' \in
                {matriz_buffer} \cup {[matriz_buffer EXCEPT ![s] = word] : s \in Slots}

\* Variant: the bound is taken inclusive.
InRange_le(x, y) == x <= 5 /\ y <= 5

\* The guard on uint x, y: x < 5 && y < 5
InRange(x, y) == x < 5 /\ y < 5

\* if (x < 5 && y < 5) matriz_buffer[xy_to_index(x, y)] = urgb_u32(r, g, b);
matriz_set_pixel(x, y, r, g, b) ==
    /\ pc = "idle"
    /\ IF InRange(x, y)
       THEN Store(xy_to_index(x, y), urgb_u32(r, g, b))
       ELSE UNCHANGED <<matriz_buffer, fault>>
    /\ call' = [op |-> "set_pixel", prev |-> call.op,
                x |-> x, y |-> y, r |-> r, g |-> g, b |-> b]
    /\ sent' = <<>>
    /\ staged' = IF <<x, y>> \in Cells
                 THEN [staged EXCEPT ![<<x, y>>] = <<r, g, b>>]
                 ELSE staged
    /\ prevFrame' = <<>>
    /\ UNCHANGED <<pc, i, txLevel, txHalted, args, res>>

\* Entry of matriz_renderizar: int i = 0.
RenderCall ==
    /\ pc = "idle"
    /\ pc' = "render"
    /\ i' = 0
    /\ call' = [NoCall EXCEPT !.op = "renderizar", !.prev = call.op]
    /\ prevFrame' = IF call.op = "renderizar" THEN sent ELSE <<>>
    /\ sent' = <<>>
    /\ UNCHANGED <<matriz_buffer, fault, txLevel, txHalted, staged, nCalls, args, res>>

\* Variant: the slot is zeroed once it has been handed over.
RenderStep_consume ==
    /\ pc = "render"
    /\ i < LED_COUNT
    /\ txLevel < FifoDepth
    /\ sent' = Append(sent, put_pixel_raw(matriz_buffer[i]))
    /\ matriz_buffer' = [matriz_buffer EXCEPT ![i] = ZeroWord]
    /\ txLevel' = txLevel + 1
    /\ i' = i + 1
    /\ UNCHANGED <<call, pc, fault, txHalted, staged, prevFrame, nCalls, args, res>>

\* One pass of the loop: i < LED_COUNT, put_pixel_raw(matriz_buffer[i]), ++i.
\* pio_sm_put_blocking waits while the TX FIFO is full, then writes the word to it.
RenderStep ==
    /\ pc = "render"
    /\ i < LED_COUNT
    /\ txLevel < FifoDepth
    /\ sent' = Append(sent, put_pixel_raw(matriz_buffer[i]))
    /\ txLevel' = txLevel + 1
    /\ i' = i + 1
    /\ UNCHANGED <<matriz_buffer, call, pc, fault, txHalted, staged, prevFrame,
                   nCalls, args, res>>

\* Variant: the call gives up when the FIFO is full.
RenderReturn_timeout ==
    /\ pc = "render"
    /\ (~(i < LED_COUNT) \/ txLevel = FifoDepth)
    /\ pc' = "idle"
    /\ UNCHANGED <<matriz_buffer, call, i, sent, fault, txLevel, txHalted,
                   staged, prevFrame, nCalls, args, res>>

\* The loop test fails and matriz_renderizar returns.
RenderReturn ==
    /\ pc = "render"
    /\ ~(i < LED_COUNT)
    /\ pc' = "idle"
    /\ UNCHANGED <<matriz_buffer, call, i, sent, fault, txLevel, txHalted,
                   staged, prevFrame, nCalls, args, res>>

-----------------------------------------------------------------------------
(* The transmitter behind pio_sm_put_blocking *)

\* The state machine shifts one word out of its FIFO.
TxDrain ==
    /\ ~txHalted
    /\ txLevel > 0
    /\ txLevel' = txLevel - 1
    /\ UNCHANGED <<matriz_buffer, call, pc, i, sent, fault, txHalted,
                   staged, prevFrame, nCalls, args, res>>

\* The state machine stops; only a new matriz_init starts it again.
TxHalt ==
    /\ ~txHalted
    /\ txHalted' = TRUE
    /\ UNCHANGED <<matriz_buffer, call, pc, i, sent, fault, txLevel,
                   staged, prevFrame, nCalls, args, res>>

-----------------------------------------------------------------------------
(* Specifications *)

\* The driver end to end: initialization, staging calls on the corner cells, rendering,
\* and the transmitter.
SetPixelCorner ==
    /\ \E x \in CornerX, y \in CornerY, c \in Colours :
           matriz_set_pixel(x, y, c[1], c[2], c[3])
    /\ UNCHANGED nCalls

Limpar ==
    /\ matriz_limpar
    /\ UNCHANGED nCalls

Next ==
    \/ matriz_init
    \/ SetPixelCorner
    \/ Limpar
    \/ RenderCall
    \/ RenderStep
    \/ RenderReturn
    \/ TxDrain
    \/ TxHalt

Spec == Init /\ [][Next]_vars

\* The loop runs on whenever it can; a running transmitter keeps draining.
Fairness ==
    /\ WF_vars(RenderStep)
    /\ WF_vars(RenderReturn)
    /\ WF_vars(TxDrain)

LiveSpec == Init /\ [][Next]_vars /\ Fairness

\* Staging only, over the whole grid and beyond, for a bounded number of calls.
StageSetPixel ==
    /\ nCalls < MaxCalls
    /\ nCalls' = nCalls + 1
    /\ \E x \in Coords, y \in Coords, c \in StageColours :
           matriz_set_pixel(x, y, c[1], c[2], c[3])

StageLimpar ==
    /\ nCalls < MaxCalls
    /\ nCalls' = nCalls + 1
    /\ matriz_limpar

StageNext ==
    \/ StageSetPixel
    \/ StageLimpar

SpecStage == Init /\ [][StageNext]_vars

\* The coordinate mapper alone, applied to two cells of the grid.
InitIndex ==
    /\ InitDriver
    /\ args \in Grid \X Grid \X Grid \X Grid
    /\ res = <<>>

MapPair ==
    /\ res = <<>>
    /\ res' = <<xy_to_index(args[1], args[2]), xy_to_index(args[3], args[4])>>
    /\ UNCHANGED <<args, driverVars>>

IndexNext == MapPair

SpecIndex == InitIndex /\ [][IndexNext]_vars

-----------------------------------------------------------------------------
(* Properties *)

\* The render in progress or last returned.
Rendering == call.op = "renderizar"

\* A call of matriz_set_pixel has just been made (staging specification).
SetPixelMade == nCalls' = nCalls + 1 /\ call'.op = "set_pixel"

\* The low 24 bits of a word as a number.
Low24(w) == w[2] * 65536 + w[3] * 256 + w[4]

\* The cells whose staged colour a slot should show.
StagedAt(s) == {c \in Cells : xy_to_index(c[1], c[2]) = s /\ staged[c] # Unset}

\* C1: on x, y in 0..4 xy_to_index is a bijection onto the slots 0..24: two distinct
\* cells never get the same index, every index is a slot, and every slot is the index
\* of some cell.
C1_Bijection ==
    res # <<>> =>
        /\ res[1] \in Slots
        /\ res[2] \in Slots
        /\ (res[1] = res[2] => <<args[1], args[2]>> = <<args[3], args[4]>>)
        /\ \A k \in Slots : \E c \in Cells : xy_to_index(c[1], c[2]) = k

C1_Witness ==
    /\ args = <<0, 4, 4, 0>>
    /\ res = <<0, 24>>

\* C2: with row' = 4 - y the index is row'*5 + x on even row' and row'*5 + (4 - x) on
\* odd row'; index(0,4) = 0, index(4,4) = 4, index(0,3) = 9, index(4,3) = 5.
C2_Serpentine ==
    res # <<>> =>
        LET x == args[1]
            y == args[2]
            row == 4 - y
        IN  /\ (row \in {0, 2, 4} => res[1] = row * 5 + x)
            /\ (row \in {1, 3} => res[1] = row * 5 + (4 - x))
            /\ (<<x, y>> = <<0, 4>> => res[1] = 0)
            /\ (<<x, y>> = <<4, 4>> => res[1] = 4)
            /\ (<<x, y>> = <<0, 3>> => res[1] = 9)
            /\ (<<x, y>> = <<4, 3>> => res[1] = 5)

C2_Witness ==
    /\ <<args[1], args[2]>> = <<4, 3>>
    /\ res # <<>>
    /\ res[1] = 5

\* C3: a set_pixel with x, y in 0..4 leaves slot xy_to_index(x, y) holding the word
\* (g<<16)|(r<<8)|b (0x0000FF80 for r=255, g=0, b=128) and every other slot as it was.
C3_SetPixelStores ==
    [][(SetPixelMade /\ call'.x \in Grid /\ call'.y \in Grid) =>
         LET k == xy_to_index(call'.x, call'.y)
             w == matriz_buffer'[k]
         IN  /\ w[1] = 0
             /\ Low24(w) = call'.g * 65536 + call'.r * 256 + call'.b
             /\ (<<call'.r, call'.g, call'.b>> = <<255, 0, 128>> => Low24(w) = 65408)
             /\ \A s \in Slots \ {k} : matriz_buffer'[s] = matriz_buffer[s]]_vars

C3_Witness ==
    /\ nCalls = 2
    /\ call.op = "set_pixel"
    /\ <<call.x, call.y>> = <<0, 0>>
    /\ <<call.r, call.g, call.b>> = <<255, 0, 128>>
    /\ matriz_buffer[20] = <<0, 0, 255, 128>>
    /\ matriz_buffer[9] = <<0, 255, 16, 1>>

\* C4: a set_pixel with x >= 5 or y >= 5 leaves all 25 slots unchanged, and no call
\* ever touches memory outside slots 0..24.
C4_OutOfRangeIgnored ==
    /\ [][(SetPixelMade /\ (call'.x >= 5 \/ call'.y >= 5)) =>
            (matriz_buffer' = matriz_buffer /\ ~fault')]_vars
    /\ []~fault

C4_Witness ==
    /\ nCalls = 2
    /\ call.op = "set_pixel"
    /\ <<call.x, call.y>> = <<5, 0>>
    /\ call.prev = "set_pixel"
    /\ matriz_buffer[0] = <<0, 0, 255, 128>>

\* C5: after matriz_limpar every slot is zero, and the render that follows it sends
\* 25 zero words.
C5_ClearThenRender ==
    /\ (call.op = "limpar" => \A s \in Slots : matriz_buffer[s] = ZeroWord)
    /\ (Rendering /\ call.prev = "limpar" =>
            /\ \A k \in 1 .. Len(sent) : sent[k] = ZeroWord
            /\ (pc = "idle" => Len(sent) = LED_COUNT))

C5_Witness ==
    /\ Rendering
    /\ call.prev = "limpar"
    /\ pc = "idle"
    /\ Len(sent) = 25

\* C6: every render hands exactly 25 words to the transmit primitive, the k-th being
\* slot k shifted left by 8 bits, in slot order 0..24.
C6_RenderSendsAll ==
    Rendering =>
        /\ Len(sent) = i
        /\ i <= LED_COUNT
        /\ (pc = "idle" => Len(sent) = LED_COUNT)
        /\ \A k \in 1 .. Len(sent) :
               sent[k] = <<matriz_buffer[k - 1][2], matriz_buffer[k - 1][3],
                           matriz_buffer[k - 1][4], 0>>

C6_Witness ==
    /\ Rendering
    /\ pc = "idle"
    /\ Len(sent) = 25
    /\ sent[1] = <<0, 255, 128, 0>>
    /\ sent[10] = <<255, 16, 1, 0>>
    /\ sent[2] = ZeroWord

\* The transmitter is stopped with its FIFO full: it accepts no further word.
Stalled == txHalted /\ txLevel = FifoDepth

\* C7: render returns only after all 25 words were accepted; it returns eventually
\* unless the transmitter stalls; once the transmitter has stalled with words still to
\* send, render never returns.
C7_RenderBlocks ==
    /\ [][(pc = "render" /\ pc' = "idle") => Len(sent) = LED_COUNT]_vars
    /\ ((pc = "render") ~> (pc = "idle" \/ Stalled))
    /\ []((pc = "render" /\ i < LED_COUNT /\ Stalled) => [](pc = "render"))

C7_Witness ==
    /\ pc = "render"
    /\ Stalled
    /\ i > 0
    /\ i < LED_COUNT

\* C8: set_pixel and limpar hand nothing to the transmitter; its FIFO gains a word
\* only inside a render.
C8_StagingSendsNothing ==
    /\ [](call.op \in {"none", "init", "set_pixel", "limpar"} => sent = <<>>)
    /\ [][txLevel' > txLevel => (pc = "render" /\ Rendering /\ Len(sent') = Len(sent) + 1)]_vars
    /\ [][Len(sent') > Len(sent) => (pc = "render" /\ txLevel' = txLevel + 1)]_vars

C8_Witness ==
    /\ call.op = "set_pixel"
    /\ call.prev = "renderizar"
    /\ InRange(call.x, call.y)
    /\ sent = <<>>
    /\ txLevel > 0

\* C9: a render sends for slot s the packed, shifted colour of the last in-range
\* set_pixel on the cell mapped to s since the last clear, zero if there is none; and
\* a render that follows a render with no staging in between sends the same words.
C9_RenderShowsStaged ==
    /\ (Rendering =>
            \A k \in 1 .. Len(sent) :
                /\ (StagedAt(k - 1) = {} => sent[k] = ZeroWord)
                /\ \A c \in StagedAt(k - 1) :
                       sent[k] = <<staged[c][2], staged[c][1], staged[c][3], 0>>)
    /\ (Rendering /\ pc = "idle" /\ call.prev = "renderizar" => sent = prevFrame)
    /\ (pc = "render" /\ call.prev = "renderizar" =>
            \A k \in 1 .. Len(sent) : sent[k] = prevFrame[k])

C9_Witness ==
    /\ Rendering
    /\ pc = "idle"
    /\ call.prev = "renderizar"
    /\ Len(prevFrame) = 25
    /\ sent[10] = <<255, 16, 1, 0>>
    /\ sent[6] = <<0, 255, 128, 0>>
    /\ staged[<<0, 4>>] = Unset

\* C10: every slot stays below 2^24, so the shift by 8 loses nothing: each word sent
\* has its low 8 bits zero and carries the slot's three bytes in its top 24 bits.
C10_NoBitsLost ==
    /\ \A s \in Slots :
           /\ matriz_buffer[s][1] = 0
           /\ \A j \in 1 .. 4 : matriz_buffer[s][j] \in Byte
    /\ (Rendering =>
            \A k \in 1 .. Len(sent) :
                /\ sent[k][4] = 0
                /\ sent[k][1] * 65536 + sent[k][2] * 256 + sent[k][3]
                       = Low24(matriz_buffer[k - 1])
                /\ \A c \in StagedAt(k - 1) :
                       <<sent[k][1], sent[k][2], sent[k][3]>>
                           = <<staged[c][2], staged[c][1], staged[c][3]>>)

C10_Witness ==
    /\ Rendering
    /\ pc = "idle"
    /\ matriz_buffer[4] = <<0, 255, 16, 1>>
    /\ sent[5] = <<255, 16, 1, 0>>

====
